---------------------------- MODULE Spec2Model ----------------------------
(***************************************************************************)
(* VERAStatus: the hydrogen-maser status pipeline                          *)
(* (HydrogenMaser.py, VERAStatus/HydrogenMaserServer.py) and the remote    *)
(* path helpers of VERAStatus/SecZ.py.                                     *)
(*                                                                         *)
(* Text is a sequence of one-character strings, so that splitting,         *)
(* stripping and number parsing are computed character by character.       *)
(* A float is a decimal value [neg, digs, scale] = (-1)^neg * digs *       *)
(* 10^-scale, kept normalised; binary rounding error of IEEE doubles is    *)
(* not modelled.                                                           *)
(***************************************************************************)
EXTENDS Integers, Sequences, FiniteSets, TLC

\* ------------------------------------------------------------------------
\* Characters and text
\* ------------------------------------------------------------------------

DigitChars == <<"0", "1", "2", "3", "4", "5", "6", "7", "8", "9">>

IsDigit(c) == \E d \in 1..10 : DigitChars[d] = c

DigitVal(c) == (CHOOSE d \in 1..10 : DigitChars[d] = c) - 1

\* str.strip() with no argument removes these (among the characters used here)
IsSpace(c) == c \in {" ", "\t", "\n"}

\* An optional value is None or Some(v); Python's None
None == <<>>
Some(v) == <<v>>

\* An outcome of a call: the exception raised, if any, or the value returned
Raise(e) == [error |-> Some(e), value |-> None]
Return(v) == [error |-> None, value |-> Some(v)]

\* Index of the first character at or after i that is not a digit
DigitsEnd(s, i) ==
    CHOOSE j \in i..(Len(s) + 1) :
        /\ \A k \in i..(j - 1) : IsDigit(s[k])
        /\ (j = Len(s) + 1 \/ ~IsDigit(s[j]))

\* str.strip(): the text without its leading and trailing whitespace
Strip(s) ==
    LET idx == {i \in 1..Len(s) : ~IsSpace(s[i])}
    IN  IF idx = {} THEN <<>>
        ELSE SubSeq(s, CHOOSE i \in idx : \A k \in idx : i <= k,
                       CHOOSE j \in idx : \A k \in idx : k <= j)

\* Index of the first occurrence of the character c at or after i, Len(s) + 1
\* when there is none
Find(s, c, i) ==
    CHOOSE j \in i..(Len(s) + 1) :
        /\ \A k \in i..(j - 1) : s[k] # c
        /\ (j = Len(s) + 1 \/ s[j] = c)

\* str.split(sep): the fields between the occurrences of the character sep
RECURSIVE SplitFrom(_, _, _)
SplitFrom(s, sep, start) ==
    LET j == Find(s, sep, start)
    IN  IF j > Len(s) THEN <<SubSeq(s, start, Len(s))>>
        ELSE <<SubSeq(s, start, j - 1)>> \o SplitFrom(s, sep, j + 1)

Split(s, sep) == SplitFrom(s, sep, 1)

\* file.readlines(): the lines of a text, each keeping its newline
RECURSIVE LinesFrom(_, _)
LinesFrom(text, start) ==
    LET j == Find(text, "\n", start)
    IN  IF start > Len(text) THEN <<>>
        ELSE IF j > Len(text) THEN <<SubSeq(text, start, Len(text))>>
        ELSE <<SubSeq(text, start, j)>> \o LinesFrom(text, j + 1)

ReadLines(text) == LinesFrom(text, 1)

\* ------------------------------------------------------------------------
\* Decimal numbers
\* ------------------------------------------------------------------------

RECURSIVE Zeros(_)
Zeros(n) == IF n <= 0 THEN <<>> ELSE <<0>> \o Zeros(n - 1)

RECURSIVE StripLeadingZeros(_)
StripLeadingZeros(d) ==
    IF d # <<>> /\ d[1] = 0 THEN StripLeadingZeros(Tail(d)) ELSE d

\* The same number with no leading zero and no trailing fractional zero
RECURSIVE Normalize(_)
Normalize(v) ==
    IF v.scale > 0 /\ v.digs # <<>> /\ v.digs[Len(v.digs)] = 0
    THEN Normalize([v EXCEPT !.digs = SubSeq(v.digs, 1, Len(v.digs) - 1),
                             !.scale = v.scale - 1])
    ELSE LET d == StripLeadingZeros(v.digs)
         IN  [neg |-> v.neg, digs |-> d, scale |-> IF d = <<>> THEN 0 ELSE v.scale]

\* A short digit sequence as a natural number (exponents, calendar fields)
RECURSIVE DigitsToNat(_)
DigitsToNat(d) ==
    IF d = <<>> THEN 0 ELSE 10 * DigitsToNat(SubSeq(d, 1, Len(d) - 1)) + d[Len(d)]

\* v * 10^k
Shift10(v, k) ==
    IF k <= v.scale
    THEN Normalize([v EXCEPT !.scale = v.scale - k])
    ELSE Normalize([v EXCEPT !.digs = v.digs \o Zeros(k - v.scale), !.scale = 0])

\* The digits s[i..j-1] as numbers
DigitVals(s, i, j) ==
    IF j <= i THEN <<>> ELSE [k \in 1..(j - i) |-> DigitVal(s[i + k - 1])]

\* The exponent part of a float literal, s[i2..]: absent, or e, an optional
\* sign and digits to the end of the text. Some(exponent), or None if malformed
ParseExponent(s, i2) ==
    IF i2 = Len(s) + 1 THEN Some(0)
    ELSE IF s[i2] \notin {"e", "E"} THEN None
    ELSE LET signed == i2 + 1 <= Len(s) /\ s[i2 + 1] \in {"+", "-"}
             j1 == IF signed THEN i2 + 2 ELSE i2 + 1
         IN  IF j1 > Len(s) \/ DigitsEnd(s, j1) # Len(s) + 1 THEN None
             ELSE IF signed /\ s[i2 + 1] = "-"
             THEN Some(0 - DigitsToNat(DigitVals(s, j1, Len(s) + 1)))
             ELSE Some(DigitsToNat(DigitVals(s, j1, Len(s) + 1)))

\* The mantissa s[i0..i1-1] "." s[i1+1..i2-1] and the exponent after it
ParseMantissa(s, neg, i0, i1, i2) ==
    LET exp == ParseExponent(s, i2)
        nfrac == IF i2 > i1 THEN i2 - i1 - 1 ELSE 0
    IN  IF (i1 - i0) + nfrac < 1 \/ exp = None THEN Raise("ValueError")
        ELSE Return(Shift10([neg |-> neg,
                             digs |-> DigitVals(s, i0, i1) \o DigitVals(s, i1 + 1, i2),
                             scale |-> nfrac], exp[1]))

ParseUnsigned(s, neg, i0) ==
    LET i1 == DigitsEnd(s, i0)
    IN  IF i1 <= Len(s) /\ s[i1] = "."
        THEN ParseMantissa(s, neg, i0, i1, DigitsEnd(s, i1 + 1))
        ELSE ParseMantissa(s, neg, i0, i1, i1)

ParseSigned(s) ==
    IF s # <<>> /\ s[1] \in {"+", "-"}
    THEN ParseUnsigned(s, s[1] = "-", 2)
    ELSE ParseUnsigned(s, FALSE, 1)

\* float(token): optional surrounding whitespace, sign, digits with an optional
\* fraction, optional exponent; anything else raises ValueError
ParseFloat(tok) == ParseSigned(Strip(tok))

\* digs + 1
RECURSIVE Incr(_)
Incr(d) ==
    IF d = <<>> THEN <<1>>
    ELSE IF d[Len(d)] < 9 THEN [d EXCEPT ![Len(d)] = d[Len(d)] + 1]
    ELSE Incr(SubSeq(d, 1, Len(d) - 1)) \o <<0>>

\* round(v, places): v rounded half-to-even to `places` decimal places
RoundPlaces(v, places) ==
    IF v.scale <= places THEN v
    ELSE LET drop == v.scale - places
             d    == Zeros(drop - Len(v.digs) + 1) \o v.digs
             keep == SubSeq(d, 1, Len(d) - drop)
             rest == SubSeq(d, Len(d) - drop + 1, Len(d))
             tailZero == \A k \in 2..Len(rest) : rest[k] = 0
             up   == \/ rest[1] > 5
                     \/ rest[1] = 5 /\ ~tailZero
                     \/ rest[1] = 5 /\ tailZero /\ keep[Len(keep)] % 2 = 1
         IN  Normalize([neg |-> v.neg,
                        digs |-> IF up THEN Incr(keep) ELSE keep,
                        scale |-> places])

\* The shortest decimal text of a number: "12", "-0.002", "1.5", "0"
RECURSIVE DigitsText(_)
DigitsText(d) == IF d = <<>> THEN "" ELSE DigitChars[d[1] + 1] \o DigitsText(Tail(d))

DecimalText(v) ==
    LET d == Zeros(v.scale - Len(v.digs) + 1) \o v.digs
        ip == SubSeq(d, 1, Len(d) - v.scale)
        fp == SubSeq(d, Len(d) - v.scale + 1, Len(d))
    IN  IF v.digs = <<>> THEN "0"
        ELSE (IF v.neg THEN "-" ELSE "") \o DigitsText(ip)
             \o (IF v.scale > 0 THEN "." \o DigitsText(fp) ELSE "")

\* ------------------------------------------------------------------------
\* HydrogenMaserServer.py: the parameter schema and the status record
\* ------------------------------------------------------------------------

\* One entry of status_parameters(); dict.get("daily_report_index", None)
\* yields None for an entry without the key
P(label, accuracy, unit, index) ==
    [label |-> label, accuracy |-> accuracy, unit |-> unit,
     daily_report_index |-> index]

status_parameters ==
    << P("total_days_from_19000101", 0, "days", None),
       P("time", 0, "", None),
       P("temperature_cavity", -3, "Cdeg", None),
       P("temperature_shield1_main", -3, "Cdeg", None),
       P("temperature_shield2_lower", -3, "Cdeg", None),
       P("temperature_shield3_upper", -3, "Cdeg", None),
       P("temperature_shield3_main", -3, "Cdeg", None),
       P("temperature_shield3_lower", -3, "Cdeg", None),
       P("temperature_electronics", -3, "Cdeg", None),
       P("temperature_room", -3, "Cdeg", None),
       P("H_pressure_source_kPa", -3, "kPa", None),
       P("H_pressure_cell", -2, "Pa", Some(2)),
       P("dissociate_intensity", 0, "", Some(1)),
       P("OCXO_control_voltage", -2, "V", Some(5)),
       P("maser_RX_level", -1, "dBm", Some(4)),
       P("cavity_IF_level", -3, "V", None),
       P("cavity_automatic_tube_error_voltage", -3, "V", None),
       P("varicap_voltage", -2, "V", Some(3)),
       P("ion_pump_current", -3, "mA", Some(0)),
       P("ion_pump_voltage", -3, "kV", None),
       P("dissociation_drive_current", -4, "A", None),
       P("battery_voltage", -3, "V", None),
       P("battery_current", -4, "A", Some(6)),
       P("battery_charge_voltage", -3, "V", None),
       P("power_supply_voltage+24", -3, "V", None),
       P("power_supply_voltage+12", -3, "V", None),
       P("power_supply_voltage-12", -3, "V", None),
       P("power_analog_supply_voltage+5", -3, "V", None),
       P("power_digital_supply_voltage+5", -3, "V", None),
       P("power_supply_voltage+3.3", -3, "V", None),
       P("reserve", -3, "Cdeg", None) >>

\* The number of fields of the dataclass HydrogenMaserStatus
HydrogenMaserStatusFields == 31

\* Position of the dataclass field `time` among the fields
TimeField == 2

\* zip(a, b): pairs up to the shorter of the two
Zip(a, b) ==
    [i \in 1..(IF Len(a) <= Len(b) THEN Len(a) ELSE Len(b)) |-> <<a[i], b[i]>>]

\* ParameterSetting with label and unit given in each other's place
ParameterSettingSwapped(label, value, accuracy, unit, daily_report_index) ==
    [label |-> unit, value |-> value, accuracy |-> accuracy, unit |-> label,
     daily_report_index |-> daily_report_index]

ParameterSetting(label, value, accuracy, unit, daily_report_index) ==
    [label |-> label, value |-> value, accuracy |-> accuracy, unit |-> unit,
     daily_report_index |-> daily_report_index]

\* status_factory: float() raises ValueError at the first token that is not a
\* number; HydrogenMaserStatus(*list) raises TypeError unless the list has one
\* item per field
status_factory(str_value_list) ==
    LET pairs == Zip(status_parameters, str_value_list)
        floats == [i \in 1..Len(pairs) |-> ParseFloat(pairs[i][2])]
        float_status_list ==
            [i \in 1..Len(pairs) |->
                ParameterSetting(pairs[i][1].label,
                                 floats[i].value[1],
                                 pairs[i][1].accuracy,
                                 pairs[i][1].unit,
                                 pairs[i][1].daily_report_index)]
    IN  IF \E i \in 1..Len(pairs) : floats[i].error # None
        THEN Raise("ValueError")
        ELSE IF Len(float_status_list) # HydrogenMaserStatusFields
        THEN Raise("TypeError")
        ELSE Return(float_status_list)

\* ------------------------------------------------------------------------
\* Calendar
\* ------------------------------------------------------------------------

IsLeap(y) == (y % 4 = 0 /\ y % 100 # 0) \/ y % 400 = 0

DaysInMonth(y, m) ==
    IF m = 2 THEN (IF IsLeap(y) THEN 29 ELSE 28)
    ELSE IF m \in {4, 6, 9, 11} THEN 30 ELSE 31

RECURSIVE DaysBeforeMonth(_, _)
DaysBeforeMonth(y, m) ==
    IF m <= 1 THEN 0 ELSE DaysBeforeMonth(y, m - 1) + DaysInMonth(y, m - 1)

\* Day of the year, 1..366
DayOfYear(y, m, d) == DaysBeforeMonth(y, m) + d

\* Days from 0001-01-01 to the first day of year y
DaysBeforeYear(y) ==
    LET p == y - 1 IN p * 365 + (p \div 4) - (p \div 100) + (p \div 400)

\* date.toordinal()
Ordinal(y, m, d) == DaysBeforeYear(y) + DayOfYear(y, m, d)

\* ------------------------------------------------------------------------
\* HydrogenMaserStatus.date_time
\* ------------------------------------------------------------------------

\* str(int(n)) of an integer-valued number
IntChars(v) ==
    IF v.digs = <<>> THEN <<"0">>
    ELSE (IF v.neg THEN <<"-">> ELSE <<>>)
         \o [k \in 1..Len(v.digs) |-> DigitChars[v.digs[k] + 1]]

AllDigits(s) == \A k \in 1..Len(s) : IsDigit(s[k])

Num(s) == DigitsToNat([k \in 1..Len(s) |-> DigitVal(s[k])])

\* The directives of _strptime's regular expression, by the width tried
MatchY(s) == Len(s) = 4 /\ AllDigits(s)
Matchm(s) == AllDigits(s) /\
    IF Len(s) = 2 THEN Num(s) \in 1..12 ELSE Num(s) \in 1..9
Matchd(s) ==
    IF Len(s) = 2 /\ s[1] = " " THEN IsDigit(s[2]) /\ DigitVal(s[2]) \in 1..9
    ELSE AllDigits(s) /\ (IF Len(s) = 2 THEN Num(s) \in 1..31 ELSE Num(s) \in 1..9)
MatchH(s) == AllDigits(s) /\ (Len(s) = 2 => Num(s) \in 0..23)
MatchM(s) == AllDigits(s) /\ (Len(s) = 2 => Num(s) \in 0..59)
MatchS(s) == AllDigits(s) /\ (Len(s) = 2 => Num(s) \in 0..61)
\* %z on the forms the caller produces: sign, two hour digits, two minute digits
Matchz(s) ==
    /\ Len(s) = 5
    /\ s[1] \in {"+", "-"}
    /\ AllDigits(Tail(s))
    /\ DigitVal(s[4]) \in 0..5

\* datetime.strptime(s, "%Y%m%d%H%M%S%z"): the regular expression tries each
\* directive's two-character alternatives before its one-character one and
\* backtracks from the right, so the match is the first, in that order, of
\* the width choices that consume the whole string
strptime(s) ==
    LET Widths == [1..5 -> {1, 2}]
        Start(w, i) == 5 + (IF i > 1 THEN w[1] ELSE 0) + (IF i > 2 THEN w[2] ELSE 0)
                         + (IF i > 3 THEN w[3] ELSE 0) + (IF i > 4 THEN w[4] ELSE 0)
                         + (IF i > 5 THEN w[5] ELSE 0)
        Part(w, i) == SubSeq(s, Start(w, i), Start(w, i) + w[i] - 1)
        Fits(w) ==
            /\ Len(s) = Start(w, 6) - 1 + 5
            /\ MatchY(SubSeq(s, 1, 4))
            /\ Matchm(Part(w, 1))
            /\ Matchd(Part(w, 2))
            /\ MatchH(Part(w, 3))
            /\ MatchM(Part(w, 4))
            /\ MatchS(Part(w, 5))
            /\ Matchz(SubSeq(s, Start(w, 6), Len(s)))
        Rank(w) == (IF w[1] = 1 THEN 16 ELSE 0) + (IF w[2] = 1 THEN 8 ELSE 0)
                   + (IF w[3] = 1 THEN 4 ELSE 0) + (IF w[4] = 1 THEN 2 ELSE 0)
                   + (IF w[5] = 1 THEN 1 ELSE 0)
        fit == {w \in Widths : Fits(w)}
    IN  IF fit = {} THEN Raise("ValueError")
        ELSE LET w  == CHOOSE u \in fit : \A t \in fit : Rank(u) <= Rank(t)
                 z  == SubSeq(s, Start(w, 6), Len(s))
                 dt == [year |-> Num(SubSeq(s, 1, 4)),
                        month |-> Num(Part(w, 1)),
                        day |-> Num(Strip(Part(w, 2))),
                        hour |-> Num(Part(w, 3)),
                        minute |-> Num(Part(w, 4)),
                        second |-> Num(Part(w, 5)),
                        half |-> 0,
                        utcoffset |-> (IF z[1] = "-" THEN -1 ELSE 1)
                                      * (60 * Num(SubSeq(z, 2, 3)) + Num(SubSeq(z, 4, 5)))]
             IN  IF dt.day > DaysInMonth(dt.year, dt.month) \/ dt.second > 59
                    \/ dt.year < 1
                 THEN Raise("ValueError")
                 ELSE Return(dt)

\* The integer part of a number, its fraction dropped: int(v)
Truncate(v) ==
    Normalize([neg |-> v.neg,
               digs |-> SubSeq(v.digs, 1, Len(v.digs) - v.scale),
               scale |-> 0])

\* date_time_string without round(): int(time * 1.e6)
date_time_string_truncating(status) ==
    <<"2", "0">>
    \o IntChars(Truncate(Shift10(status[TimeField].value, 6)))
    \o <<"+", "0", "9", "0", "0">>

\* The characters handed to strptime: f"20{str(int(round(time * 1.e6)))}+0900"
date_time_string(status) ==
    <<"2", "0">>
    \o IntChars(RoundPlaces(Shift10(status[TimeField].value, 6), 0))
    \o <<"+", "0", "9", "0", "0">>

date_time(status) == strptime(date_time_string(status))

\* ------------------------------------------------------------------------
\* HydrogenMaserStatus.output_str
\* ------------------------------------------------------------------------

\* round_float(value, accuracy): the value rounded to -accuracy decimal places
round_float(value, accuracy) == RoundPlaces(value, 0 - accuracy)

\* SortedByIndex without the sort: the fields in their order in the record
Unsorted(seq) == seq

\* sorted(seq, key=daily_report_index): stable, ascending
RECURSIVE SortedByIndex(_)
SortedByIndex(seq) ==
    IF seq = <<>> THEN <<>>
    ELSE LET i == CHOOSE i \in 1..Len(seq) :
                    /\ \A j \in 1..Len(seq) :
                          seq[i].daily_report_index[1] <= seq[j].daily_report_index[1]
                    /\ \A j \in 1..(i - 1) :
                          seq[j].daily_report_index # seq[i].daily_report_index
         IN  <<seq[i]>> \o SortedByIndex(SubSeq(seq, 1, i - 1) \o SubSeq(seq, i + 1, Len(seq)))

\* ReportLine with the value as decoded, not rounded
ReportLineUnrounded(parameter_setting) ==
    parameter_setting.label \o ": "
    \o DecimalText(parameter_setting.value)
    \o parameter_setting.unit

ReportLine(parameter_setting) ==
    parameter_setting.label \o ": "
    \o DecimalText(round_float(parameter_setting.value, parameter_setting.accuracy))
    \o parameter_setting.unit

HasReportIndex(parameter_setting) == parameter_setting.daily_report_index # None

\* The parameters to print, in the order printed:
\* sorted(parameter_dict_to_print, key=daily_report_index)
ReportEntries(status) == SortedByIndex(SelectSeq(status, HasReportIndex))

\* The lines of the report, before they are joined
ReportLines(status) ==
    [i \in 1..Len(ReportEntries(status)) |-> ReportLine(ReportEntries(status)[i])]

\* "\n".join(lines)
RECURSIVE JoinLines(_)
JoinLines(lines) ==
    IF lines = <<>> THEN ""
    ELSE IF Len(lines) = 1 THEN lines[1]
    ELSE lines[1] \o "\n" \o JoinLines(Tail(lines))

output_str(status) == JoinLines(ReportLines(status))

\* ------------------------------------------------------------------------
\* Utility.py (imported by HydrogenMaserServer.py and HydrogenMaser.py)
\* ------------------------------------------------------------------------

\* Seconds of an aware datetime since the start of its UTC day, in half seconds
HalfSecondOfDay(dt) ==
    2 * (3600 * dt.hour + 60 * dt.minute + dt.second - 60 * dt.utcoffset) + dt.half

\* Half seconds in a day
DayHalfSeconds == 2 * 86400

\* absolute_time_difference_second(a, b): |a - b|, held the way a timedelta
\* holds it: whole days and 0 <= halfseconds < one day
absolute_time_difference_second(a, b) ==
    LET dd == Ordinal(a.year, a.month, a.day) - Ordinal(b.year, b.month, b.day)
        hs == HalfSecondOfDay(a) - HalfSecondOfDay(b)
        D  == dd + (hs \div DayHalfSeconds)
        H  == hs % DayHalfSeconds
    IN  IF D >= 0 THEN [days |-> D, halfseconds |-> H]
        ELSE IF H = 0 THEN [days |-> 0 - D, halfseconds |-> 0]
        ELSE [days |-> 0 - D - 1, halfseconds |-> DayHalfSeconds - H]

\* t > n seconds, for a duration t
LongerThan(t, n) == t.days > 0 \/ t.halfseconds > 2 * n

\* Exceptions deriving from Utility.Error, which main() catches
IsError(e) == e \in {"Error", "DataReadError"}

\* ------------------------------------------------------------------------
\* HydrogenMaserServer.current_status, step by step
\* ------------------------------------------------------------------------

\* The limit, in seconds, of the age of the latest data
StalenessLimit == 60

\* Path.glob("hm_only_mdata*.txt"): a name is <<head, middle, tail>> and
\* matches when it starts with the prefix and ends with the suffix
GlobMatches(name) == name[1] = "hm_only_mdata" /\ name[3] = ".txt"

Glob(directory) ==
    SelectSeq(directory, LAMBDA f : GlobMatches(f.name))

\* max(a, b, ..., key=getmtime) of two or more arguments: the first of the
\* arguments whose key is the greatest
MaxByMtime(fs) ==
    fs[CHOOSE i \in 1..Len(fs) :
          /\ \A j \in 1..Len(fs) : fs[j].mtime <= fs[i].mtime
          /\ \A j \in 1..(i - 1) : fs[j].mtime < fs[i].mtime]

\* max(*files, key=...): with no argument max() raises TypeError; with one
\* argument it takes that argument, a Path, for an iterable, and raises
\* TypeError as a Path is not iterable
SelectLatest(fs) ==
    IF Len(fs) = 0 THEN Raise("TypeError")
    ELSE IF Len(fs) = 1 THEN Raise("TypeError")
    ELSE Return(MaxByMtime(fs))

\* f.readlines()[-1].strip().split("\t")
LastLineTokens(text) ==
    LET lines == ReadLines(text)
    IN  IF lines = <<>> THEN Raise("IndexError")
        ELSE Return(Split(Strip(lines[Len(lines)]), "\t"))

\* IsStale with >= in place of >
IsStaleAtLimit(latest, now) ==
    LET t == absolute_time_difference_second(latest, now)
    IN  t.days > 0 \/ t.halfseconds >= 2 * StalenessLimit

\* absolute_time_difference_second(latest_data_time, current_time) > 60
IsStale(latest, now) ==
    LongerThan(absolute_time_difference_second(latest, now), StalenessLimit)

\* ------------------------------------------------------------------------
\* SecZ.py: remote paths
\* ------------------------------------------------------------------------

RECURSIVE NatDigits(_)
NatDigits(n) == IF n < 10 THEN <<n>> ELSE NatDigits(n \div 10) \o <<n % 10>>

\* strftime_Yj with the day of the year not padded
strftime_Yj_unpadded(d) ==
    DigitsText(NatDigits(d.year)) \o DigitsText(NatDigits(DayOfYear(d.year, d.month, d.day)))

\* strftime("%Y%j"): the year as it is, the day of the year on three digits
strftime_Yj(d) ==
    LET j == NatDigits(DayOfYear(d.year, d.month, d.day))
    IN  DigitsText(NatDigits(d.year)) \o DigitsText(Zeros(3 - Len(j)) \o j)

\* A PurePosixPath is the sequence of its parts; "/" appends a part
remote_directory(d) == <<"/", "usr2", "log", "days", strftime_Yj(d)>>

remote_file_path(d) == Append(remote_directory(d), strftime_Yj(d) \o ".SECZ.log")

\* str(path)
RECURSIVE JoinParts(_)
JoinParts(parts) ==
    IF parts = <<>> THEN ""
    ELSE IF Len(parts) = 1 THEN parts[1]
    ELSE parts[1] \o "/" \o JoinParts(Tail(parts))

PathText(path) ==
    IF path # <<>> /\ path[1] = "/" THEN "/" \o JoinParts(Tail(path))
    ELSE JoinParts(path)

\* ------------------------------------------------------------------------
\* Weather.py: the query sent to the weather server
\* ------------------------------------------------------------------------

TwoDigits(n) == DigitsText(<<n \div 10, n % 10>>)

\* Utility.datetime2doy_string: the year and the day of the year, "2020300"
datetime2doy_string(dt) == strftime_Yj(dt)

\* Utility.datetime2time_string: the day followed by the time, "2020326023000"
datetime2time_string(dt) ==
    strftime_Yj(dt) \o TwoDigits(dt.hour) \o TwoDigits(dt.minute) \o TwoDigits(dt.second)

\* "|".join(strings)
RECURSIVE JoinBar(_)
JoinBar(strings) ==
    IF strings = <<>> THEN ""
    ELSE IF Len(strings) = 1 THEN strings[1]
    ELSE strings[1] \o "|" \o JoinBar(Tail(strings))

\* Utility.egrep_command_remote_remote: egrep of the alternation in a file
egrep_command_remote_remote(path, strings) ==
    "egrep \"\\\"" \o JoinBar(strings) \o "\"\\\" " \o PathText(path)

\* lines 22-32
log_file_weather_server(dt) ==
    LET date_str == datetime2doy_string(dt)
    IN  <<"/", "usr2", "log", "days", date_str, date_str \o ".WS.log">>

\* The query built on the log of the last time of the list
query_command_weather_server_last(date_time_list) ==
    LET time_str_list == [i \in 1..Len(date_time_list) |->
                              datetime2time_string(date_time_list[i])]
    IN  IF date_time_list = <<>> THEN Raise("StopIteration")
        ELSE Return(egrep_command_remote_remote(
                        log_file_weather_server(date_time_list[Len(date_time_list)]),
                        time_str_list)
                    \o " | grep -v \\;")

\* lines 35-46; next(iter([])) raises StopIteration
query_command_weather_server(date_time_list) ==
    LET time_str_list == [i \in 1..Len(date_time_list) |->
                              datetime2time_string(date_time_list[i])]
    IN  IF date_time_list = <<>> THEN Raise("StopIteration")
        ELSE Return(egrep_command_remote_remote(
                        log_file_weather_server(date_time_list[1]), time_str_list)
                    \o " | grep -v \\;")

\* ------------------------------------------------------------------------
\* Vex.py: the names of an observation
\* ------------------------------------------------------------------------

\* The keys of the dictionary vex_lines2observation_info builds
ObservationKeys ==
    {"observation_ID", "description", "start_time", "end_time", "PI_name",
     "contact_name", "band", "timestamp"}

\* correct_names with the two assignments of the first branch in the other
\* order: PI_name is copied before contact_name is set
correct_names_copy_first(observation_info_dict) ==
    IF ~({"PI_name", "contact_name"} \subseteq DOMAIN observation_info_dict)
    THEN Raise("KeyError")
    ELSE IF observation_info_dict["PI_name"] = None
    THEN LET copied == [observation_info_dict EXCEPT
                            !["PI_name"] = observation_info_dict["contact_name"]]
         IN  Return(IF copied["contact_name"] = None
                    THEN [copied EXCEPT !["contact_name"] = Some("unknown")]
                    ELSE copied)
    ELSE IF observation_info_dict["contact_name"] = None
    THEN Return([observation_info_dict EXCEPT
                     !["contact_name"] = observation_info_dict["PI_name"]])
    ELSE Return(observation_info_dict)

\* lines 147-159: the dictionary as correct_names leaves it; a dictionary
\* without one of the two keys raises KeyError at the first read of it
correct_names(observation_info_dict) ==
    IF "PI_name" \notin DOMAIN observation_info_dict THEN Raise("KeyError")
    ELSE IF observation_info_dict["PI_name"] = None
    THEN IF "contact_name" \notin DOMAIN observation_info_dict THEN Raise("KeyError")
         ELSE LET named == IF observation_info_dict["contact_name"] = None
                           THEN [observation_info_dict EXCEPT
                                     !["contact_name"] = Some("unknown")]
                           ELSE observation_info_dict
              IN  Return([named EXCEPT !["PI_name"] = named["contact_name"]])
    ELSE IF "contact_name" \notin DOMAIN observation_info_dict THEN Raise("KeyError")
    ELSE IF observation_info_dict["contact_name"] = None
    THEN Return([observation_info_dict EXCEPT
                     !["contact_name"] = observation_info_dict["PI_name"]])
    ELSE Return(observation_info_dict)

\* ------------------------------------------------------------------------
\* Schedule.py: the observations of a day, fetched by a process pool
\* ------------------------------------------------------------------------

\* ProcessPoolExecutor(max_workers=6)
max_workers == 6

\* The observation identifiers in use, in alphabetical order
ObservationIDs ==
    <<"r20300a", "r20300b", "r20300c", "r20300d", "r20300e", "r20300f",
      "r20300g", "r20300h", "r20300i">>

\* The place of an identifier in the alphabetical order
IdRank(id) == CHOOSE i \in 1..Len(ObservationIDs) : ObservationIDs[i] = id

\* ObservationInfo's order: by observation_ID, its first field
InfoBefore(a, b) == IdRank(a["observation_ID"][1]) < IdRank(b["observation_ID"][1])

\* sorted(infos): stable, ascending
RECURSIVE sorted_infos(_)
sorted_infos(infos) ==
    IF infos = <<>> THEN <<>>
    ELSE LET i == CHOOSE i \in 1..Len(infos) :
                    /\ \A j \in 1..Len(infos) : ~InfoBefore(infos[j], infos[i])
                    /\ \A j \in 1..(i - 1) : InfoBefore(infos[i], infos[j])
         IN  <<infos[i]>>
             \o sorted_infos(SubSeq(infos, 1, i - 1) \o SubSeq(infos, i + 1, Len(infos)))

\* Vex.py lines 127-144: the observation a schedule file describes, its names
\* corrected; the file is given by the dictionary its lines spell
schedule_file2observation_info(schedule_file) ==
    correct_names(schedule_file.observation)

\* How many tasks a pool is running
Running(tasks) == Cardinality({i \in 1..Len(tasks) : tasks[i] = "running"})

\* ------------------------------------------------------------------------
\* Inputs: the data directory and the clock
\* ------------------------------------------------------------------------

\* Most files the data directory holds
MaxFiles == 3

NatChars(n) == LET d == NatDigits(n) IN [k \in 1..Len(d) |-> DigitChars[d[k] + 1]]

\* Values of the `time` column, as the monitor software writes them
TimeOnTime   == <<"2","0","1","0","2","6",".","0","1","3","0","4","5">>
TimeRoundsUp == <<"2","0","1","0","2","6",".","0","1","3","0","4","4","6">>
TimeExponent == <<"2",".","0","1","0","2","6","0","1","3","0","4","5","e","5">>
TimeYearEnd  == <<"2","0","1","2","3","1",".","2","3","5","9","3","0">>
TimeMonth13  == <<"2","0","1","3","0","6",".","0","1","3","0","4","5">>
TimeFeb30    == <<"2","0","0","2","3","0",".","0","1","0","1","0","1">>
TimeShort    == <<"5","0","1","0","2",".","0","3","0","4","0","5">>
TimeNegative == <<"-","1",".","0">>
TimeShortMonth13 == <<"1","3","0","6",".","0","1","3","0","4","5">>
TimeHour24   == <<"2","0","1","0","2","6",".","2","4","0","0","0","0">>
TimeMinute60 == <<"2","0","1","0","2","6",".","0","1","6","0","0","0">>
TimeSecond60 == <<"2","0","1","0","2","6",".","0","1","3","0","6","0">>
TimeLong     == <<"2","0","1","0","2","6","0",".","1","3","0","4","5">>

TimeTokens ==
    {TimeOnTime, TimeRoundsUp, TimeExponent, TimeYearEnd, TimeMonth13, TimeFeb30,
     TimeShort, TimeNegative, TimeShortMonth13, TimeHour24, TimeMinute60,
     TimeSecond60, TimeLong}

Days44130 == <<"4","4","1","3","0">>
Days44131 == <<"4","4","1","3","1">>

\* The value written in column i: the column number and a fraction
Fraction(style) ==
    CASE style = 1 -> <<".","3","4","5","6">>
      [] style = 2 -> <<".","5">>
      [] style = 3 -> <<".","1","2","5">>

ValueToken(i, style) ==
    IF i = 19 /\ style = 1
    THEN <<"-","2",".","3","4","5","6","7","e","-","3">>
    ELSE NatChars(i) \o Fraction(style)

\* A status line: `count` columns, column `bad` (if any) not a number; with
\* `lead` an empty column comes before them, with `trail` one comes after
LineTokens(l) ==
    [i \in 1..l.count |->
        IF i = l.bad THEN <<"x">>
        ELSE IF i = 1 THEN l.days
        ELSE IF i = 2 THEN l.time
        ELSE ValueToken(i, l.style)]

RECURSIVE JoinTabs(_)
JoinTabs(toks) ==
    IF toks = <<>> THEN <<>>
    ELSE IF Len(toks) = 1 THEN toks[1]
    ELSE toks[1] \o <<"\t">> \o JoinTabs(Tail(toks))

BaseLine ==
    [days |-> Days44130, time |-> TimeOnTime, count |-> 31, bad |-> 0,
     style |-> 1, newline |-> TRUE, earlier |-> TRUE, empty |-> FALSE,
     lead |-> FALSE, trail |-> FALSE]

\* The status lines tried: the base line changed in one respect
LineChoices ==
    {BaseLine}
    \cup {[BaseLine EXCEPT !.time = t] : t \in TimeTokens}
    \cup {[BaseLine EXCEPT !.count = c] : c \in {30, 32}}
    \cup {[BaseLine EXCEPT !.count = 32, !.bad = 32],
          [BaseLine EXCEPT !.count = 30, !.bad = 5]}
    \cup {[BaseLine EXCEPT !.bad = b] : b \in {1, 17, 31}}
    \cup {[BaseLine EXCEPT !.style = s] : s \in {2, 3}}
    \cup {[BaseLine EXCEPT !.days = Days44131],
          [BaseLine EXCEPT !.newline = FALSE],
          [BaseLine EXCEPT !.earlier = FALSE],
          [BaseLine EXCEPT !.empty = TRUE],
          [BaseLine EXCEPT !.lead = TRUE],
          [BaseLine EXCEPT !.trail = TRUE]}

\* An earlier line of the file: older, and not a status line
EarlierLine == <<"1", "\t", "x", "\n">>

FileText(l) ==
    IF l.empty THEN <<>>
    ELSE (IF l.earlier THEN EarlierLine ELSE <<>>)
         \o (IF l.lead THEN <<"\t">> ELSE <<>>)
         \o JoinTabs(LineTokens(l))
         \o (IF l.trail THEN <<"\t">> ELSE <<>>)
         \o (IF l.newline THEN <<"\n">> ELSE <<>>)

\* File k of the directory: written at time k; every file but the one under
\* study holds an older status line
OlderLine == [BaseLine EXCEPT !.time = TimeYearEnd, !.style = 2]

DataFile(k, l) ==
    [name |-> <<"hm_only_mdata", DigitChars[k + 1], ".txt">>,
     mtime |-> k, text |-> FileText(l)]

OtherFile ==
    [name |-> <<"hm_only_mdata", "0", ".log">>, mtime |-> 9, text |-> EarlierLine]

ListingOrders(n) ==
    {f \in [1..n -> 1..n] : \A i, j \in 1..n : i # j => f[i] # f[j]}

\* The lines tried in a directory of n data files: all of them with two
\* files, a few with any other number
FewLines == {BaseLine, [BaseLine EXCEPT !.count = 32], [BaseLine EXCEPT !.bad = 17]}

LinesFor(n) == IF n = 2 THEN LineChoices ELSE FewLines

\* The directory listings tried: up to MaxFiles data files in any order, one of
\* them holding the line under study, with or without a file of another name
Directories ==
    {<<>>, <<OtherFile>>}
    \cup UNION {
           {[i \in 1..n |-> DataFile(order[i], IF order[i] = p THEN l ELSE OlderLine)]
              : order \in ListingOrders(n), p \in 1..n, l \in LinesFor(n)}
           : n \in 1..MaxFiles}
    \cup {<<OtherFile>> \o [i \in 1..2 |-> DataFile(i, IF i = 2 THEN l ELSE OlderLine)]
              : l \in LineChoices}

DateTime(y, mo, d, h, mi, s, hf) ==
    [year |-> y, month |-> mo, day |-> d, hour |-> h, minute |-> mi,
     second |-> s, half |-> hf, utcoffset |-> 540]

\* The readings of the clock tried, datetime.now(tz=JST)
NowChoices ==
    {DateTime(2020, 10, 26, 1, 30, 45, 0), DateTime(2020, 10, 26, 1, 31, 45, 0),
     DateTime(2020, 10, 26, 1, 31, 45, 1), DateTime(2020, 10, 26, 1, 31, 46, 0),
     DateTime(2020, 10, 26, 1, 29, 45, 0), DateTime(2020, 10, 26, 1, 29, 44, 0),
     DateTime(2020, 10, 27, 1, 30, 45, 0), DateTime(2021, 1, 1, 0, 0, 30, 0),
     DateTime(2021, 1, 1, 0, 0, 31, 0)}

\* The dates tried by the SecZ helpers
YearChoices == {1900, 2000, 2020, 2021}

DateChoices ==
    {[year |-> y, month |-> m, day |-> d] :
        y \in YearChoices, m \in 1..12, d \in 1..31}

\* Most times in one weather query
MaxTimes == 3

WeatherTime(y, mo, d, h, mi, s) ==
    [year |-> y, month |-> mo, day |-> d, hour |-> h, minute |-> mi, second |-> s]

\* The times asked of the weather server
WeatherTimes ==
    {WeatherTime(2020, 10, 26, 10, 30, 30), WeatherTime(2020, 11, 21, 2, 30, 0),
     WeatherTime(2020, 11, 21, 2, 30, 1), WeatherTime(2020, 12, 31, 23, 59, 59),
     WeatherTime(2021, 1, 1, 0, 0, 0)}

WeatherTimeLists ==
    UNION {[1..n -> WeatherTimes] : n \in 0..MaxTimes}

\* The names a schedule gives, None when the schedule has no such line
NameChoices == {None, Some("Honma"), Some("Oyama"), Some("unknown"), Some("")}

\* The observation dictionaries tried, as lines 115-122 of Vex.py build them
ObservationDicts ==
    {[k \in ObservationKeys |->
        CASE k = "observation_ID" -> Some(id)
          [] k = "description" -> Some("geodesy")
          [] k = "start_time" -> Some(WeatherTime(2020, 10, 26, 1, 0, 0))
          [] k = "end_time" -> Some(WeatherTime(2020, 10, 26, 9, 0, 0))
          [] k = "PI_name" -> pi
          [] k = "contact_name" -> contact
          [] k = "band" -> Some(band)
          [] k = "timestamp" -> ts]
       : id \in {"r20300a", "r20300b"}, pi \in NameChoices, contact \in NameChoices,
         band \in {"K", "unknown"}, ts \in {None, Some(1603674000)}}

\* Most schedule files in a day
MaxSchedules == 7

\* Schedule file i of a day of n files, in the order ls prints them; the
\* observation identifiers run against that order, and every other file
\* names no PI
ScheduleFile(i, n) ==
    [path |-> "/usr2/sched/" \o ObservationIDs[i] \o ".vex",
     observation |->
        [k \in ObservationKeys |->
            CASE k = "observation_ID" -> Some(ObservationIDs[n + 1 - i])
              [] k = "description" -> Some("geodesy")
              [] k = "start_time" -> Some(WeatherTime(2020, 10, 26, 1, 0, 0))
              [] k = "end_time" -> Some(WeatherTime(2020, 10, 26, 9, 0, 0))
              [] k = "PI_name" -> IF i % 2 = 0 THEN None ELSE Some("Honma")
              [] k = "contact_name" -> Some("Oyama")
              [] k = "band" -> Some("K")
              [] k = "timestamp" -> None]]

ScheduleLists == {[i \in 1..n |-> ScheduleFile(i, n)] : n \in 0..MaxSchedules}

\* ------------------------------------------------------------------------
\* State
\* ------------------------------------------------------------------------

VARIABLES
    dir_exists,        \* directory.is_dir()
    directory,         \* the listing of the data directory, in listing order
    pc,                \* where main() is
    stages,            \* the stages of current_status entered so far, in order
    latest_data_file,  \* the file chosen, None before
    handle,            \* "none", "open" or "closed": the file object f
    opens,             \* how many times a file was opened
    mode,              \* the mode the file was opened in, None before
    latest_line,       \* the tokens of the last line
    status,            \* the HydrogenMaserStatus, None before
    latest_data_time,  \* status.date_time
    current_time,      \* the clock as read
    result,            \* what current_status returned, None before or on error
    error,             \* the exception in flight, None when there is none
    stdout,            \* what was printed, in order
    exit_code,         \* the exit status, None while running
    sz_pc, sz_date, sz_directory, sz_file_path,  \* SecZ.py
    ws_pc, ws_date, ws_times, ws_log_file, ws_command,  \* Weather.py
    vx_pc,             \* Vex.py: how many times correct_names was applied
    vx_given,          \* the dictionary before the first application
    vx_once,           \* the dictionary after the first application
    vx_dict,           \* observation_info_dict, changed in place
    sc_pc,             \* Schedule.py: where read_observations is
    sc_files,          \* what schedule_files returned
    sc_futures,        \* the task of each file submitted: "queued", "running",
                       \* "done" or "failed"
    sc_got,            \* the results taken from the futures so far, in order
    sc_result,         \* what read_observations returned, None before
    sc_error           \* the exception that left read_observations, None if none

hm_vars == <<dir_exists, directory, pc, stages, latest_data_file, handle, opens, mode,
             latest_line, status, latest_data_time, current_time, result, error,
             stdout, exit_code>>
sz_vars == <<sz_pc, sz_date, sz_directory, sz_file_path>>
ws_vars == <<ws_pc, ws_date, ws_times, ws_log_file, ws_command>>
vx_vars == <<vx_pc, vx_given, vx_once, vx_dict>>
sc_vars == <<sc_pc, sc_files, sc_futures, sc_got, sc_result, sc_error>>
vars == <<hm_vars, sz_vars, ws_vars, vx_vars, sc_vars>>
not_hm_vars == <<sz_vars, ws_vars, vx_vars, sc_vars>>
not_sz_vars == <<hm_vars, ws_vars, vx_vars, sc_vars>>
not_ws_vars == <<hm_vars, sz_vars, vx_vars, sc_vars>>
not_vx_vars == <<hm_vars, sz_vars, ws_vars, sc_vars>>
not_sc_vars == <<hm_vars, sz_vars, ws_vars, vx_vars>>

HMStart ==
    /\ pc = "settings"
    /\ stages = <<>>
    /\ latest_data_file = None
    /\ handle = "none"
    /\ opens = 0
    /\ mode = None
    /\ latest_line = None
    /\ status = None
    /\ latest_data_time = None
    /\ current_time = None
    /\ result = None
    /\ error = None
    /\ stdout = <<>>
    /\ exit_code = None

SecZIdle ==
    /\ sz_pc = "idle"
    /\ sz_date = None
    /\ sz_directory = None
    /\ sz_file_path = None

WeatherIdle ==
    /\ ws_pc = "idle"
    /\ ws_date = None
    /\ ws_times = <<>>
    /\ ws_log_file = None
    /\ ws_command = None

VexIdle ==
    /\ vx_pc = 0
    /\ vx_given = None
    /\ vx_once = None
    /\ vx_dict = None

ScheduleIdle ==
    /\ sc_pc = "idle"
    /\ sc_files = <<>>
    /\ sc_futures = <<>>
    /\ sc_got = <<>>
    /\ sc_result = None
    /\ sc_error = None

Init ==
    /\ \/ dir_exists = TRUE /\ directory \in Directories
       \/ dir_exists = FALSE /\ directory = <<>>
    /\ HMStart
    /\ SecZIdle
    /\ WeatherIdle
    /\ VexIdle
    /\ ScheduleIdle

\* Fail with every exception wrapped in a DataReadError
FailWrapped(e) ==
    /\ pc' = "raised"
    /\ error' = Some("DataReadError")
    /\ result' = None

\* An exception leaves the stage: nothing is returned
Fail(e) ==
    /\ pc' = "raised"
    /\ error' = e
    /\ result' = None

\* read_settings: the directory must exist
ReadSettings ==
    /\ pc = "settings"
    /\ IF dir_exists
       THEN pc' = "select" /\ UNCHANGED <<error, result>>
       ELSE Fail(Some("DataReadError"))
    /\ UNCHANGED not_hm_vars
    /\ UNCHANGED <<mode, dir_exists, directory, stages, latest_data_file, handle, opens,
                   latest_line, status, latest_data_time, current_time, stdout,
                   exit_code>>

\* current_status, lines 213-216: the latest of the matching files
SelectFile ==
    /\ pc = "select"
    /\ stages' = Append(stages, "select")
    /\ LET r == SelectLatest(Glob(directory))
       IN  IF r.error # None
           THEN Fail(r.error) /\ UNCHANGED latest_data_file
           ELSE /\ latest_data_file' = r.value
                /\ pc' = "open"
                /\ UNCHANGED <<error, result>>
    /\ UNCHANGED not_hm_vars
    /\ UNCHANGED <<mode, dir_exists, directory, handle, opens, latest_line, status,
                   latest_data_time, current_time, stdout, exit_code>>

\* current_status, line 217: open(latest_data_file, mode="r")
OpenFile ==
    /\ pc = "open"
    /\ stages' = Append(stages, "read")
    /\ handle' = "open"
    /\ opens' = opens + 1
    /\ mode' = Some("r")
    /\ pc' = "read"
    /\ UNCHANGED not_hm_vars
    /\ UNCHANGED <<dir_exists, directory, latest_data_file, latest_line, status,
                   latest_data_time, current_time, result, error, stdout, exit_code>>

\* The last line read from a file that is closed by hand after the read, not
\* by a with block
ReadLastLineNoWith ==
    /\ pc = "read"
    /\ LET r == LastLineTokens(latest_data_file[1].text)
       IN  IF r.error # None
           THEN Fail(r.error) /\ UNCHANGED <<latest_line, handle>>
           ELSE /\ latest_line' = r.value
                /\ handle' = "closed"
                /\ pc' = "decode"
                /\ UNCHANGED <<error, result>>
    /\ UNCHANGED not_hm_vars
    /\ UNCHANGED <<mode, dir_exists, directory, stages, latest_data_file, opens, status,
                   latest_data_time, current_time, stdout, exit_code>>

\* current_status, line 218, and the end of the with block, which closes f
\* whether or not the line was read
ReadLastLine ==
    /\ pc = "read"
    /\ handle' = "closed"
    /\ LET r == LastLineTokens(latest_data_file[1].text)
       IN  IF r.error # None
           THEN Fail(r.error) /\ UNCHANGED latest_line
           ELSE /\ latest_line' = r.value
                /\ pc' = "decode"
                /\ UNCHANGED <<error, result>>
    /\ UNCHANGED not_hm_vars
    /\ UNCHANGED <<mode, dir_exists, directory, stages, latest_data_file, opens, status,
                   latest_data_time, current_time, stdout, exit_code>>

\* current_status, line 220: status_factory(latest_line)
Decode ==
    /\ pc = "decode"
    /\ stages' = Append(stages, "decode")
    /\ LET r == status_factory(latest_line[1])
       IN  IF r.error # None
           THEN Fail(r.error) /\ UNCHANGED status
           ELSE /\ status' = r.value
                /\ pc' = "stamp"
                /\ UNCHANGED <<error, result>>
    /\ UNCHANGED not_hm_vars
    /\ UNCHANGED <<mode, dir_exists, directory, latest_data_file, handle, opens,
                   latest_line, latest_data_time, current_time, stdout, exit_code>>

\* current_status, line 221: status.date_time
DeriveTimestamp ==
    /\ pc = "stamp"
    /\ stages' = Append(stages, "timestamp")
    /\ LET r == date_time(status[1])
       IN  IF r.error # None
           THEN Fail(r.error) /\ UNCHANGED latest_data_time
           ELSE /\ latest_data_time' = r.value
                /\ pc' = "fresh"
                /\ UNCHANGED <<error, result>>
    /\ UNCHANGED not_hm_vars
    /\ UNCHANGED <<mode, dir_exists, directory, latest_data_file, handle, opens,
                   latest_line, status, current_time, stdout, exit_code>>

\* current_status, lines 222-227: read the clock, reject old data, return
CheckFreshness ==
    /\ pc = "fresh"
    /\ stages' = Append(stages, "freshness")
    /\ \E now \in NowChoices :
          /\ current_time' = Some(now)
          /\ IF IsStale(latest_data_time[1], now)
             THEN Fail(Some("DataReadError"))
             ELSE /\ result' = status
                  /\ pc' = "returned"
                  /\ UNCHANGED error
    /\ UNCHANGED not_hm_vars
    /\ UNCHANGED <<mode, dir_exists, directory, latest_data_file, handle, opens,
                   latest_line, status, latest_data_time, stdout, exit_code>>

\* main, line 32 and HydrogenMaser.py line 78: print_status, then sys.exit(0)
PrintStatus ==
    /\ pc = "returned"
    /\ stdout' = Append(stdout, output_str(result[1]))
    /\ exit_code' = Some(0)
    /\ pc' = "exited"
    /\ UNCHANGED not_hm_vars
    /\ UNCHANGED <<mode, dir_exists, directory, stages, latest_data_file, handle, opens,
                   latest_line, status, latest_data_time, current_time, result,
                   error>>

\* main, lines 34-36: an Error is printed and the exit status is 1; any other
\* exception leaves main uncaught (a traceback on stderr, exit status 1)
HandleException ==
    /\ pc = "raised"
    /\ IF IsError(error[1])
       THEN /\ stdout' = Append(stdout, "message of " \o error[1])
            /\ pc' = "exited"
       ELSE /\ pc' = "traceback"
            /\ UNCHANGED stdout
    /\ exit_code' = Some(1)
    /\ UNCHANGED not_hm_vars
    /\ UNCHANGED <<mode, dir_exists, directory, stages, latest_data_file, handle, opens,
                   latest_line, status, latest_data_time, current_time, result,
                   error>>

Next ==
    \/ ReadSettings
    \/ SelectFile
    \/ OpenFile
    \/ ReadLastLine
    \/ Decode
    \/ DeriveTimestamp
    \/ CheckFreshness
    \/ PrintStatus
    \/ HandleException

Spec == Init /\ [][Next]_vars

\* ------------------------------------------------------------------------
\* SecZ.py: the path helpers, called on a date
\* ------------------------------------------------------------------------

HMIdle ==
    /\ dir_exists = FALSE
    /\ directory = <<>>
    /\ HMStart

InitSecZ ==
    /\ HMIdle
    /\ sz_pc = "idle"
    /\ \E d \in DateChoices :
          d.day <= DaysInMonth(d.year, d.month) /\ sz_date = Some(d)
    /\ sz_directory = None
    /\ sz_file_path = None
    /\ WeatherIdle
    /\ VexIdle
    /\ ScheduleIdle

CallRemoteDirectory ==
    /\ sz_pc = "idle"
    /\ sz_directory' = Some(remote_directory(sz_date[1]))
    /\ sz_pc' = "directory"
    /\ UNCHANGED <<sz_date, sz_file_path>>
    /\ UNCHANGED not_sz_vars

CallRemoteFilePath ==
    /\ sz_pc = "directory"
    /\ sz_file_path' = Some(remote_file_path(sz_date[1]))
    /\ sz_pc' = "done"
    /\ UNCHANGED <<sz_date, sz_directory>>
    /\ UNCHANGED not_sz_vars

NextSecZ ==
    \/ CallRemoteDirectory
    \/ CallRemoteFilePath

SpecSecZ == InitSecZ /\ [][NextSecZ]_vars

\* ------------------------------------------------------------------------
\* Weather.py: the log file of a time, the query for a list of times
\* ------------------------------------------------------------------------

InitWeather ==
    /\ HMIdle
    /\ SecZIdle
    /\ ws_pc = "idle"
    /\ \E dt \in WeatherTimes : ws_date = Some(dt)
    /\ ws_times \in WeatherTimeLists
    /\ ws_log_file = None
    /\ ws_command = None
    /\ VexIdle
    /\ ScheduleIdle

CallLogFileWeatherServer ==
    /\ ws_pc = "idle"
    /\ ws_log_file' = Some(log_file_weather_server(ws_date[1]))
    /\ ws_pc' = "log_file"
    /\ UNCHANGED <<ws_date, ws_times, ws_command>>
    /\ UNCHANGED not_ws_vars

CallQueryCommandWeatherServer ==
    /\ ws_pc = "log_file"
    /\ ws_command' = query_command_weather_server(ws_times)
    /\ ws_pc' = "done"
    /\ UNCHANGED <<ws_date, ws_times, ws_log_file>>
    /\ UNCHANGED not_ws_vars

NextWeather ==
    \/ CallLogFileWeatherServer
    \/ CallQueryCommandWeatherServer

SpecWeather == InitWeather /\ [][NextWeather]_vars

\* ------------------------------------------------------------------------
\* Vex.py: correct_names applied to an observation dictionary, and again
\* ------------------------------------------------------------------------

InitVex ==
    /\ HMIdle
    /\ SecZIdle
    /\ WeatherIdle
    /\ vx_pc = 0
    /\ \E d \in ObservationDicts : vx_given = Some(d) /\ vx_dict = Some(d)
    /\ vx_once = None
    /\ ScheduleIdle

\* line 123: correct_names(observation_info_dict)
CallCorrectNames ==
    /\ vx_pc = 0
    /\ correct_names(vx_dict[1]).error = None
    /\ vx_dict' = correct_names(vx_dict[1]).value
    /\ vx_once' = vx_dict'
    /\ vx_pc' = 1
    /\ UNCHANGED vx_given
    /\ UNCHANGED not_vx_vars

\* correct_names on the dictionary it has already corrected
CallCorrectNamesAgain ==
    /\ vx_pc = 1
    /\ correct_names(vx_dict[1]).error = None
    /\ vx_dict' = correct_names(vx_dict[1]).value
    /\ vx_pc' = 2
    /\ UNCHANGED <<vx_given, vx_once>>
    /\ UNCHANGED not_vx_vars

NextVex ==
    \/ CallCorrectNames
    \/ CallCorrectNamesAgain

SpecVex == InitVex /\ [][NextVex]_vars

\* ------------------------------------------------------------------------
\* Schedule.py: read_observations and the workers of its pool
\* ------------------------------------------------------------------------

InitSchedule ==
    /\ HMIdle
    /\ SecZIdle
    /\ WeatherIdle
    /\ VexIdle
    /\ sc_pc = "submit"
    /\ sc_files \in ScheduleLists
    /\ sc_futures = <<>>
    /\ sc_got = <<>>
    /\ sc_result = None
    /\ sc_error = None

\* lines 71-73: one task submitted for the next file of the list
Submit ==
    /\ sc_pc = "submit"
    /\ Len(sc_futures) < Len(sc_files)
    /\ sc_futures' = Append(sc_futures, "queued")
    /\ UNCHANGED <<sc_pc, sc_files, sc_got, sc_result, sc_error>>
    /\ UNCHANGED not_sc_vars

\* line 74: every file has its task, the results are awaited
AwaitResults ==
    /\ sc_pc = "submit"
    /\ Len(sc_futures) = Len(sc_files)
    /\ sc_pc' = "collect"
    /\ UNCHANGED <<sc_files, sc_futures, sc_got, sc_result, sc_error>>
    /\ UNCHANGED not_sc_vars

\* A free worker of the pool takes a queued task
WorkerStart ==
    /\ Running(sc_futures) < max_workers
    /\ \E i \in 1..Len(sc_futures) :
          /\ sc_futures[i] = "queued"
          /\ sc_futures' = [sc_futures EXCEPT ![i] = "running"]
    /\ UNCHANGED <<sc_pc, sc_files, sc_got, sc_result, sc_error>>
    /\ UNCHANGED not_sc_vars

\* A worker ends its task: schedule_file2observation_info returned, or raised
\* (the connection failed, a line of the file could not be read)
WorkerFinish ==
    /\ \E i \in 1..Len(sc_futures) :
          /\ sc_futures[i] = "running"
          /\ \E outcome \in {"done", "failed"} :
                sc_futures' = [sc_futures EXCEPT ![i] = outcome]
    /\ UNCHANGED <<sc_pc, sc_files, sc_got, sc_result, sc_error>>
    /\ UNCHANGED not_sc_vars

\* TakeResult returning what it has when a task failed
TakeResultPartial ==
    /\ sc_pc = "collect"
    /\ Len(sc_got) < Len(sc_futures)
    /\ LET i == Len(sc_got) + 1
       IN  /\ sc_futures[i] \in {"done", "failed"}
           /\ IF sc_futures[i] = "failed"
              THEN /\ sc_pc' = "returned"
                   /\ sc_result' = Some(sorted_infos(
                                       [k \in 1..Len(sc_got) |-> sc_got[k][1]]))
                   /\ UNCHANGED sc_got
              ELSE /\ sc_got' = Append(sc_got,
                                  schedule_file2observation_info(sc_files[i]).value)
                   /\ UNCHANGED <<sc_pc, sc_result>>
    /\ UNCHANGED <<sc_files, sc_futures, sc_error>>
    /\ UNCHANGED not_sc_vars

\* line 74: future.result() of the next future, in the order of submission;
\* it waits for the task to end and raises what the task raised
TakeResult ==
    /\ sc_pc = "collect"
    /\ Len(sc_got) < Len(sc_futures)
    /\ LET i == Len(sc_got) + 1
       IN  /\ sc_futures[i] \in {"done", "failed"}
           /\ IF sc_futures[i] = "failed"
              THEN /\ sc_pc' = "raised"
                   /\ sc_error' = Some("DataReadError")
                   /\ UNCHANGED sc_got
              ELSE /\ sc_got' = Append(sc_got,
                                  schedule_file2observation_info(sc_files[i]).value)
                   /\ UNCHANGED <<sc_pc, sc_error>>
    /\ UNCHANGED <<sc_files, sc_futures, sc_result>>
    /\ UNCHANGED not_sc_vars

\* line 74: sorted([...]) of the results taken, returned
ReturnSorted ==
    /\ sc_pc = "collect"
    /\ Len(sc_got) = Len(sc_futures)
    /\ sc_result' = Some(sorted_infos(
                        [i \in 1..Len(sc_got) |-> sc_got[i][1]]))
    /\ sc_pc' = "returned"
    /\ UNCHANGED <<sc_files, sc_futures, sc_got, sc_error>>
    /\ UNCHANGED not_sc_vars

NextSchedule ==
    \/ Submit
    \/ AwaitResults
    \/ WorkerStart
    \/ WorkerFinish
    \/ TakeResult
    \/ ReturnSorted

SpecSchedule == InitSchedule /\ [][NextSchedule]_vars

\* ------------------------------------------------------------------------
\* Properties
\* ------------------------------------------------------------------------

Ran(stage) == \E i \in 1..Len(stages) : stages[i] = stage

Finished == pc \in {"exited", "traceback"}

\* The age of the latest data when the clock was read
Age == absolute_time_difference_second(latest_data_time[1], current_time[1])

WithinLimit == Age.days = 0 /\ Age.halfseconds <= 120

\* C1: once the freshness check has run, a record is returned exactly when the
\* record's timestamp and the clock differ by at most 60 seconds; when they
\* differ by more, in either direction, the call fails with DataReadError and
\* returns nothing.
C1_FreshWithin60Seconds ==
    /\ result # None => Ran("freshness")
    /\ Ran("freshness") =>
          /\ WithinLimit => (result = status /\ result # None /\ error = None)
          /\ ~WithinLimit => (result = None /\ error = Some("DataReadError"))

\* a difference of exactly 60 seconds was accepted
C1_Witness ==
    /\ Ran("freshness")
    /\ Age = [days |-> 0, halfseconds |-> 120]
    /\ result # None

AllNumeric(tokens) == \A i \in 1..Len(tokens) : ParseFloat(tokens[i]).error = None

\* C2: decoding yields a record if and only if the line has exactly 31 tokens
\* and every one of them is a number.
C2_DecodeIffExactly31Numeric ==
    Ran("decode") =>
        (status # None <=> (Len(latest_line[1]) = 31 /\ AllNumeric(latest_line[1])))

\* C3: whenever the directory holds at least one matching file, the file chosen
\* is the one with the greatest modification time, whatever the listing order.
C3_SelectsLatestOfAnyNonEmptySet ==
    (Ran("select") /\ Glob(directory) # <<>>) =>
        /\ latest_data_file # None
        /\ \A i \in 1..Len(Glob(directory)) :
              Glob(directory)[i].mtime <= latest_data_file[1].mtime

\* C4: with an existing directory that holds no matching file, the run ends with
\* no record and no report, on an Error that main() prints as a message.
C4_NoMatchingFileIsReportedError ==
    (dir_exists /\ Glob(directory) = <<>> /\ Finished) =>
        /\ result = None
        /\ error # None /\ IsError(error[1])
        /\ pc = "exited"
        /\ stdout = <<"message of " \o error[1]>>

\* The digits of the time field times 1,000,000, rounded to the nearest integer
RoundedTimeDigits(token) ==
    RoundPlaces(Shift10(ParseFloat(token).value[1], 6), 0).digs

Pad2(n) == DigitChars[(n \div 10) + 1] \o DigitChars[(n % 10) + 1]

\* A timestamp written as YYYYMMDDhhmmss
Format14(dt) ==
    Pad2(dt.year \div 100) \o Pad2(dt.year % 100) \o Pad2(dt.month) \o Pad2(dt.day)
    \o Pad2(dt.hour) \o Pad2(dt.minute) \o Pad2(dt.second)

\* C5: the timestamp is determined by the time token alone: when the time field
\* times 1,000,000, rounded, has 12 digits, the timestamp written as
\* YYYYMMDDhhmmss is "20" followed by those digits, at UTC+9; 201026.013045
\* gives 2020-10-26 01:30:45 +09:00, whatever the days field.
C5_TimestampFromTimeField ==
    (Ran("timestamp") /\ latest_data_time # None) =>
        /\ latest_data_time[1].utcoffset = 540
        /\ Len(RoundedTimeDigits(latest_line[1][2])) = 12 =>
              Format14(latest_data_time[1])
                  = "20" \o DigitsText(RoundedTimeDigits(latest_line[1][2]))
        /\ latest_line[1][2] = TimeOnTime =>
              latest_data_time[1] = DateTime(2020, 10, 26, 1, 30, 45, 0)

\* the example, with the other value of the days field
C5_Witness ==
    /\ latest_data_time = Some(DateTime(2020, 10, 26, 1, 30, 45, 0))
    /\ latest_line[1][1] = Days44131
    /\ latest_line[1][2] = TimeOnTime

\* C6: in a record decoded from 31 tokens, field N holds the number written in
\* token N with the label, accuracy, unit and report rank of descriptor N.
C6_FieldsByPosition ==
    (status # None /\ Len(latest_line[1]) = 31) =>
        /\ Len(status[1]) = 31
        /\ \A N \in 1..31 :
              /\ status[1][N].value = ParseFloat(latest_line[1][N]).value[1]
              /\ status[1][N].label = status_parameters[N].label
              /\ status[1][N].accuracy = status_parameters[N].accuracy
              /\ status[1][N].unit = status_parameters[N].unit
              /\ status[1][N].daily_report_index
                    = status_parameters[N].daily_report_index

\* token 19, -2.34567e-3, became the value of ion_pump_current
C6_Witness ==
    /\ status # None
    /\ Len(latest_line[1]) = 31
    /\ status[1][19].label = "ion_pump_current"
    /\ status[1][19].value = [neg |-> TRUE, digs |-> <<2, 3, 4, 5, 6, 7>>, scale |-> 8]

ReportedLabels ==
    <<"ion_pump_current", "dissociate_intensity", "H_pressure_cell",
      "varicap_voltage", "maser_RX_level", "OCXO_control_voltage",
      "battery_current">>

\* The field of a record with a given label
FieldLabelled(record, label) ==
    record[CHOOSE N \in 1..Len(record) : record[N].label = label]

\* C7: the report printed for a record has exactly 7 lines, one per field that
\* has a report rank and none for the other 24, in rank order 0..6:
\* ion_pump_current, dissociate_intensity, H_pressure_cell, varicap_voltage,
\* maser_RX_level, OCXO_control_voltage, battery_current.
C7_SevenLinesInRankOrder ==
    (pc = "exited" /\ exit_code = Some(0)) =>
        /\ Len(ReportLines(result[1])) = 7
        /\ Cardinality({N \in 1..31 : result[1][N].daily_report_index = None}) = 24
        /\ \A i \in 1..7 :
              /\ ReportEntries(result[1])[i].daily_report_index = Some(i - 1)
              /\ ReportEntries(result[1])[i] = FieldLabelled(result[1], ReportedLabels[i])
        /\ stdout = <<JoinLines([i \in 1..7 |->
                          ReportLine(FieldLabelled(result[1], ReportedLabels[i]))])>>

C7_Witness ==
    /\ pc = "exited"
    /\ exit_code = Some(0)
    /\ Len(stdout) = 1
    /\ ReportEntries(result[1])[7].label = "battery_current"

\* The report of the line whose values are written in the given style
ExpectedReport(style) ==
    CASE style = 1 ->
           "ion_pump_current: -0.002mA\ndissociate_intensity: 13\n"
           \o "H_pressure_cell: 12.35Pa\nvaricap_voltage: 18.35V\n"
           \o "maser_RX_level: 15.3dBm\nOCXO_control_voltage: 14.35V\n"
           \o "battery_current: 23.3456A"
      [] style = 2 ->
           "ion_pump_current: 19.5mA\ndissociate_intensity: 14\n"
           \o "H_pressure_cell: 12.5Pa\nvaricap_voltage: 18.5V\n"
           \o "maser_RX_level: 15.5dBm\nOCXO_control_voltage: 14.5V\n"
           \o "battery_current: 23.5A"
      [] style = 3 ->
           "ion_pump_current: 19.125mA\ndissociate_intensity: 13\n"
           \o "H_pressure_cell: 12.12Pa\nvaricap_voltage: 18.12V\n"
           \o "maser_RX_level: 15.1dBm\nOCXO_control_voltage: 14.12V\n"
           \o "battery_current: 23.125A"

\* C8: every line of the report is the label, ": ", the value rounded to the
\* number of decimal places its accuracy gives (-3: three places, 0: nearest
\* integer) and the unit, with nothing else; for ion_pump_current =
\* -2.34567e-3 the first line is "ion_pump_current: -0.002mA".
C8_LineFormat ==
    (pc = "exited" /\ exit_code = Some(0)) =>
        \A style \in 1..3 :
            (\A i \in 3..31 : latest_line[1][i] = ValueToken(i, style)) =>
                stdout = <<ExpectedReport(style)>>

C8_Witness ==
    /\ pc = "exited"
    /\ exit_code = Some(0)
    /\ latest_line[1][19] = ValueToken(19, 1)
    /\ ReportLines(result[1])[1] = "ion_pump_current: -0.002mA"

StageOrder == <<"select", "read", "decode", "timestamp", "freshness">>

\* What a stage of current_status raises on the inputs it was given
StageError(stage) ==
    CASE stage = "select" -> SelectLatest(Glob(directory)).error
      [] stage = "read" -> LastLineTokens(latest_data_file[1].text).error
      [] stage = "decode" -> status_factory(latest_line[1]).error
      [] stage = "timestamp" -> date_time(status[1]).error
      [] stage = "freshness" ->
           IF WithinLimit THEN None ELSE Some("DataReadError")

\* What each stage leaves for the next one
StageDone(stage) ==
    CASE stage = "select" -> latest_data_file # None
      [] stage = "read" -> latest_line # None
      [] stage = "decode" -> status # None
      [] stage = "timestamp" -> latest_data_time # None
      [] stage = "freshness" -> result # None

\* C9: the stages run in the order select, read, decode, timestamp, freshness,
\* each at most once; a stage is entered only after the ones before it
\* succeeded; when one fails, its own error is the error of the call, no later
\* stage is entered and nothing is returned.
C9_StagesInOrderFirstFailureEnds ==
    /\ Len(stages) <= 5
    /\ \A i \in 1..Len(stages) : stages[i] = StageOrder[i]
    /\ \A i \in 1..(Len(stages) - 1) : StageDone(stages[i])
    /\ \A i \in 1..5 : StageDone(StageOrder[i]) => i <= Len(stages)
    /\ (stages # <<>> /\ pc # "read") =>
          /\ error = StageError(stages[Len(stages)])
          /\ error # None => (result = None /\ ~StageDone(stages[Len(stages)]))
    /\ result # None => (stages = StageOrder /\ error = None)

\* decoding failed: the timestamp and freshness stages never ran
C9_Witness ==
    /\ Finished
    /\ stages = <<"select", "read", "decode">>
    /\ error = Some("ValueError")
    /\ result = None

Pad3(n) ==
    DigitChars[(n \div 100) + 1] \o DigitChars[((n \div 10) % 10) + 1]
    \o DigitChars[(n % 10) + 1]

\* The number of days of the year of d up to and including d
DaysUpTo(d) ==
    Cardinality({md \in (1..12) \X (1..31) :
                    /\ md[2] <= DaysInMonth(d.year, md[1])
                    /\ (md[1] < d.month \/ (md[1] = d.month /\ md[2] <= d.day))})

YYYYDDD(d) == Pad2(d.year \div 100) \o Pad2(d.year % 100) \o Pad3(DaysUpTo(d))

\* C10: remote_directory(d) is /usr2/log/days/<YYYYDDD> and remote_file_path(d)
\* is the file <YYYYDDD>.SECZ.log in that directory; 2020-10-26 gives
\* /usr2/log/days/2020300/2020300.SECZ.log.
C10_RemotePaths ==
    sz_pc = "done" =>
        /\ PathText(sz_directory[1]) = "/usr2/log/days/" \o YYYYDDD(sz_date[1])
        /\ SubSeq(sz_file_path[1], 1, Len(sz_file_path[1]) - 1) = sz_directory[1]
        /\ PathText(sz_file_path[1])
              = "/usr2/log/days/" \o YYYYDDD(sz_date[1]) \o "/"
                \o YYYYDDD(sz_date[1]) \o ".SECZ.log"
        /\ sz_date[1] = [year |-> 2020, month |-> 10, day |-> 26] =>
              PathText(sz_file_path[1]) = "/usr2/log/days/2020300/2020300.SECZ.log"

C10_Witness ==
    /\ sz_pc = "done"
    /\ sz_date = Some([year |-> 2020, month |-> 10, day |-> 26])
    /\ PathText(sz_directory[1]) = "/usr2/log/days/2020300"
    /\ PathText(sz_file_path[1]) = "/usr2/log/days/2020300/2020300.SECZ.log"

\* ------------------------------------------------------------------------
\* C11
\* ------------------------------------------------------------------------

hhmmss(dt) == Pad2(dt.hour) \o Pad2(dt.minute) \o Pad2(dt.second)

RECURSIVE Alternation(_)
Alternation(times) ==
    IF Len(times) = 1 THEN YYYYDDD(times[1]) \o hhmmss(times[1])
    ELSE YYYYDDD(times[1]) \o hhmmss(times[1]) \o "|" \o Alternation(Tail(times))

WeatherLog(dt) ==
    "/usr2/log/days/" \o YYYYDDD(dt) \o "/" \o YYYYDDD(dt) \o ".WS.log"

\* C11: for every non-empty list of times the command returned is an egrep
\* whose pattern is the YYYYDDDhhmmss strings of the listed times, in list
\* order and separated by "|", run on the weather log
\* /usr2/log/days/<YYYYDDD>/<YYYYDDD>.WS.log of the day of the first listed
\* time, and ending with " | grep -v \;"; log_file_weather_server gives that
\* log file for a time.
C11_WeatherQuery ==
    /\ ws_log_file # None => PathText(ws_log_file[1]) = WeatherLog(ws_date[1])
    /\ (ws_pc = "done" /\ ws_times # <<>>) =>
          /\ ws_command.error = None
          /\ ws_command.value[1] =
                "egrep \"\\\"" \o Alternation(ws_times) \o "\"\\\" "
                    \o WeatherLog(ws_times[1]) \o " | grep -v \\;"

C11_Witness ==
    /\ ws_pc = "done"
    /\ ws_times = <<WeatherTime(2020, 11, 21, 2, 30, 0), WeatherTime(2020, 11, 21, 2, 30, 1)>>
    /\ ws_command = Return("egrep \"\\\"2020326023000|2020326023001\"\\\" "
                           \o "/usr2/log/days/2020326/2020326.WS.log | grep -v \\;")
    /\ PathText(ws_log_file[1]) = "/usr2/log/days/2020300/2020300.WS.log"

\* ------------------------------------------------------------------------
\* C12, C13
\* ------------------------------------------------------------------------

\* The time field times 1,000,000, rounded
RoundedTime(token) == RoundPlaces(Shift10(ParseFloat(token).value[1], 6), 0)

\* The digits read as YYMMDDhhmmss, the missing leading zeros implied
LeftZeroImplied(digs) == Zeros(12 - Len(digs)) \o digs

TwoAt(digs, i) == 10 * digs[i] + digs[i + 1]

\* The date and time twelve digits spell in YYMMDDhhmmss layout
Layout12(digs) ==
    DateTime(2000 + TwoAt(digs, 1), TwoAt(digs, 3), TwoAt(digs, 5),
             TwoAt(digs, 7), TwoAt(digs, 9), TwoAt(digs, 11), 0)

ValidDateTime(dt) ==
    /\ dt.month \in 1..12
    /\ dt.day \in 1..DaysInMonth(dt.year, dt.month)
    /\ dt.hour \in 0..23
    /\ dt.minute \in 0..59
    /\ dt.second \in 0..59

\* The rounded time field is a valid date and time in YYMMDDhhmmss layout
ValidLayout(v) ==
    /\ ~v.neg
    /\ Len(v.digs) <= 12
    /\ ValidDateTime(Layout12(LeftZeroImplied(v.digs)))

TimestampStageEnded == Ran("timestamp") /\ pc # "stamp"

\* C12: when the time field times 1,000,000 rounds to an integer of fewer
\* than 12 digits, the timestamp is the one the 12-digit YYMMDDhhmmss string
\* with the missing leading zeros spells; 50102030405 is 2005-01-02 03:04:05
\* +09:00.
C12_ShortTimeLeftZeroImplied ==
    (TimestampStageEnded
        /\ Len(RoundedTime(latest_line[1][2]).digs) < 12
        /\ ValidLayout(RoundedTime(latest_line[1][2]))) =>
       latest_data_time
           = Some(Layout12(LeftZeroImplied(RoundedTime(latest_line[1][2]).digs)))

\* C13: whenever the digits derived from the time field are not a valid
\* calendar date and time in YYMMDDhhmmss layout, deriving the timestamp
\* fails and no timestamp is returned.
C13_InvalidTimeFails ==
    (TimestampStageEnded /\ ~ValidLayout(RoundedTime(latest_line[1][2]))) =>
        /\ latest_data_time = None
        /\ error # None
        /\ pc \in {"raised", "exited", "traceback"}

\* ------------------------------------------------------------------------
\* C14
\* ------------------------------------------------------------------------

AfterWith == {"decode", "stamp", "fresh", "returned", "raised", "exited", "traceback"}

\* C14: the selected file is opened at most once, in mode "r"; the handle is
\* open only while the last line is being read and is closed from then on,
\* whether the read succeeded or failed and whatever stage fails later; no
\* handle is open when the invocation ends.
C14_HandleClosedOnEveryExit ==
    /\ opens <= 1
    /\ opens = 0 <=> handle = "none"
    /\ handle # "none" => mode = Some("r")
    /\ handle = "open" => pc = "read"
    /\ (opens = 1 /\ pc \in AfterWith) => handle = "closed"
    /\ Finished => handle # "open"

\* an empty file: reading its last line fails, and the handle is closed
C14_Witness ==
    /\ Finished
    /\ error = Some("IndexError")
    /\ latest_data_file[1].text = <<>>
    /\ opens = 1
    /\ handle = "closed"

\* ------------------------------------------------------------------------
\* C15
\* ------------------------------------------------------------------------

\* The final line of a text, its trailing newline (and nothing else) removed
FinalLine(text) ==
    LET lines == ReadLines(text)
        last  == lines[Len(lines)]
    IN  IF last # <<>> /\ last[Len(last)] = "\n"
        THEN SubSeq(last, 1, Len(last) - 1)
        ELSE last

\* The text of a file without the lines before the final one
OnlyFinalLine(text) ==
    LET lines == ReadLines(text) IN lines[Len(lines)]

\* C15: the tokens handed to the decoder are exactly the tab-separated fields
\* of the final line of the selected file with only its trailing newline
\* removed, an empty first or last field included, and they are the same
\* whatever the earlier lines hold.
C15_TokensAreFinalLineFields ==
    latest_line # None =>
        /\ latest_line[1] = Split(FinalLine(latest_data_file[1].text), "\t")
        /\ LastLineTokens(OnlyFinalLine(latest_data_file[1].text)).value = latest_line

\* ------------------------------------------------------------------------
\* C16
\* ------------------------------------------------------------------------

\* C16: after correct_names, PI_name and contact_name are both not None: both
\* are "unknown" if both were None, the one that was None has the other's
\* value if exactly one was, both are as they were otherwise; no other key
\* changes, no key is added or removed, and a second application changes
\* nothing.
C16_NamesCorrected ==
    vx_pc >= 1 =>
        LET given == vx_given[1]
            once  == vx_once[1]
        IN  /\ DOMAIN once = DOMAIN given
            /\ once["PI_name"] # None /\ once["contact_name"] # None
            /\ (given["PI_name"] = None /\ given["contact_name"] = None) =>
                  once["PI_name"] = Some("unknown") /\ once["contact_name"] = Some("unknown")
            /\ (given["PI_name"] = None /\ given["contact_name"] # None) =>
                  once["PI_name"] = given["contact_name"]
                      /\ once["contact_name"] = given["contact_name"]
            /\ (given["PI_name"] # None /\ given["contact_name"] = None) =>
                  once["PI_name"] = given["PI_name"]
                      /\ once["contact_name"] = given["PI_name"]
            /\ (given["PI_name"] # None /\ given["contact_name"] # None) =>
                  once = given
            /\ \A k \in DOMAIN given \ {"PI_name", "contact_name"} : once[k] = given[k]
            /\ vx_pc = 2 => vx_dict = vx_once

\* both names missing, corrected twice
C16_Witness ==
    /\ vx_pc = 2
    /\ vx_given[1]["PI_name"] = None
    /\ vx_given[1]["contact_name"] = None
    /\ vx_dict[1]["PI_name"] = Some("unknown")
    /\ vx_dict[1]["contact_name"] = Some("unknown")

\* ------------------------------------------------------------------------
\* C17
\* ------------------------------------------------------------------------

\* The observation of file i is at exactly one place of the result
OncePerFile(returned, i) ==
    Cardinality({k \in 1..Len(returned) :
                    returned[k] = schedule_file2observation_info(sc_files[i]).value[1]}) = 1

\* C17: read_observations submits one task per schedule file, at most 6 of
\* them run at a time, and what it returns holds the observation of every
\* file exactly once, in ascending order, so it is the same for every order
\* in which the workers start and end; if a task failed nothing is returned.
C17_OnePerFileSortedOrFails ==
    /\ Len(sc_futures) <= Len(sc_files)
    /\ sc_pc # "submit" => Len(sc_futures) = Len(sc_files)
    /\ Running(sc_futures) <= 6
    /\ sc_pc = "returned" =>
          /\ \A i \in 1..Len(sc_futures) : sc_futures[i] = "done"
          /\ Len(sc_result[1]) = Len(sc_files)
          /\ \A i \in 1..Len(sc_files) : OncePerFile(sc_result[1], i)
          /\ \A k \in 1..(Len(sc_result[1]) - 1) :
                InfoBefore(sc_result[1][k], sc_result[1][k + 1])
    /\ sc_pc # "returned" => sc_result = None
    /\ sc_pc = "raised" <=> sc_error # None
    /\ (sc_pc = "collect" /\ Len(sc_got) < Len(sc_futures)
           /\ sc_futures[Len(sc_got) + 1] = "failed") => sc_result = None

\* more files than workers, all fetched
C17_Witness ==
    /\ sc_pc = "returned"
    /\ Len(sc_files) = 7
    /\ Len(sc_result[1]) = 7
    /\ sc_result[1][1]["observation_ID"] = Some("r20300a")
    /\ sc_result[1][1] = schedule_file2observation_info(sc_files[7]).value[1]

=============================================================================
